---- MODULE Spec2Model ----
(***************************************************************************)
(* cw-storage: namespaced views over a flat byte-keyed store               *)
(* (src/src/prefix.rs), typed buckets (src/src/bucket.rs) and the          *)
(* secondary-index maintainer (src/src/index.rs).                          *)
(*                                                                         *)
(* Bytes are naturals 0..255, byte strings are sequences of bytes.         *)
(* Option<T> is a sequence of length 0 (None) or 1 (Some), Result<T> is a  *)
(* pair <<"ok", value>> or <<"err", kind>>.                                *)
(***************************************************************************)
EXTENDS Integers, Sequences, FiniteSets, TLC

VARIABLES
    store,   \* the flat store (MockStorage): flat key -> value bytes
    pre,     \* ghost: the flat store as the last operation found it
    lastW,   \* ghost: <<kind, chain, key>> -> value of the latest write there
    owner,   \* ghost: flat key -> <<kind, chain, key>> of its latest writer
    ret,     \* the last operation: its arguments, its result, its store traffic
    nops,    \* number of operations performed so far
    enc      \* the encoder harness: inputs and the flat key computed from them

vars == <<store, pre, lastW, owner, ret, nops, enc>>

(***************************************************************************)
(* Bounds of the model.                                                    *)
(***************************************************************************)
MaxOps == 2
MaxIndexOps == 3
MaxChainLen == 2
MaxSuffixLen == 2

SeqsUpTo(S, n) == UNION {[1..m -> S] : m \in 0..n}

(***************************************************************************)
(* Option and Result.                                                      *)
(***************************************************************************)
None == <<>>
Some(x) == <<x>>
Ok(x) == <<"ok", x>>
Err(e) == <<"err", e>>
IsOk(r) == r[1] = "ok"
IsErr(r) == r[1] = "err"

(***************************************************************************)
(* Key encoder, prefix.rs.                                                 *)
(***************************************************************************)
\* a panic!() unwinds out of the constructor: no prefix is produced
Panic == <<-1>>

\* the longest namespace segment length_prefix accepts
MaxPrefixLen == 255

\* mutant: no length check, the length byte wraps
length_prefix_wraps(prefix) == <<Len(prefix) % 256>> \o prefix

\* mutant: the length byte is left out
length_prefix_nolen(prefix) ==
    IF Len(prefix) > MaxPrefixLen THEN Panic ELSE prefix

\* fn length_prefix(prefix: &[u8]) -> Vec<u8>
length_prefix(prefix) ==
    IF Len(prefix) > MaxPrefixLen
    THEN Panic
    ELSE <<Len(prefix) % 256>> \o prefix

RECURSIVE multi_loop(_, _, _)
\* the second for loop of multi_length_prefix, from the i-th prefix on
multi_loop(prefixes, i, v) ==
    IF i > Len(prefixes) THEN v
    ELSE IF Len(prefixes[i]) > MaxPrefixLen THEN Panic
    ELSE multi_loop(prefixes, i + 1, (v \o <<Len(prefixes[i]) % 256>>) \o prefixes[i])

RECURSIVE multi_loop_nolen(_, _, _)
\* mutant of the loop: the length bytes are left out
multi_loop_nolen(prefixes, i, v) ==
    IF i > Len(prefixes) THEN v
    ELSE IF Len(prefixes[i]) > MaxPrefixLen THEN Panic
    ELSE multi_loop_nolen(prefixes, i + 1, v \o prefixes[i])

\* mutant: segments are concatenated without their length bytes
multi_length_prefix_nolen(prefixes) == multi_loop_nolen(prefixes, 1, <<>>)

RECURSIVE multi_loop_rev(_, _, _)
\* mutant of the loop: each segment goes in front of the ones before it
multi_loop_rev(prefixes, i, v) ==
    IF i > Len(prefixes) THEN v
    ELSE IF Len(prefixes[i]) > MaxPrefixLen THEN Panic
    ELSE multi_loop_rev(prefixes, i + 1, (<<Len(prefixes[i]) % 256>> \o prefixes[i]) \o v)

\* mutant: the segments are encoded innermost first
multi_length_prefix_rev(prefixes) == multi_loop_rev(prefixes, 1, <<>>)

\* fn multi_length_prefix(prefixes: &[&[u8]]) -> Vec<u8>
multi_length_prefix(prefixes) == multi_loop(prefixes, 1, <<>>)

\* mutant: the key gets a length byte of its own, as a segment does
prefixed_key_lensuffix(prefix, key) == (prefix \o <<Len(key) % 256>>) \o key

\* let mut k = self.prefix.clone(); k.extend_from_slice(key);
prefixed_key(prefix, key) == prefix \o key

(***************************************************************************)
(* The flat store (cosmwasm MockStorage): get and set, nothing else.       *)
(***************************************************************************)
EmptyStore == <<>>

\* ReadonlyStorage::get
storage_get(s, k) == IF k \in DOMAIN s THEN Some(s[k]) ELSE None

\* Storage::set
storage_set(s, k, v) == [x \in (DOMAIN s) \cup {k} |-> IF x = k THEN v ELSE s[x]]

(***************************************************************************)
(* Prefixed views, prefix.rs.  A view holds its prefix and a reference to  *)
(* the storage it wraps, which is the flat store or another view: a stack  *)
(* of views is the sequence of their prefixes, outermost first, and <<>>   *)
(* is the flat store itself.                                               *)
(***************************************************************************)
\* PrefixedStorage::new(prefix, storage)
PrefixedStorage_new(prefix, storage) == Append(storage, length_prefix(prefix))

\* PrefixedStorage::multilevel(prefixes, storage)
PrefixedStorage_multilevel(prefixes, storage) ==
    Append(storage, multi_length_prefix(prefixes))

\* ReadonlyPrefixedStorage::new(prefix, storage)
ReadonlyPrefixedStorage_new(prefix, storage) == Append(storage, length_prefix(prefix))

\* ReadonlyPrefixedStorage::multilevel(prefixes, storage)
ReadonlyPrefixedStorage_multilevel(prefixes, storage) ==
    Append(storage, multi_length_prefix(prefixes))

RECURSIVE PrefixedStorage_get(_, _, _)
\* PrefixedStorage::get: prepend the prefix, ask the wrapped storage
PrefixedStorage_get(s, view, key) ==
    IF view = <<>> THEN storage_get(s, key)
    ELSE PrefixedStorage_get(s, SubSeq(view, 1, Len(view) - 1),
                             prefixed_key(view[Len(view)], key))

RECURSIVE ReadonlyPrefixedStorage_get(_, _, _)
\* ReadonlyPrefixedStorage::get: prepend the prefix, ask the wrapped storage
ReadonlyPrefixedStorage_get(s, view, key) ==
    IF view = <<>> THEN storage_get(s, key)
    ELSE ReadonlyPrefixedStorage_get(s, SubSeq(view, 1, Len(view) - 1),
                                     prefixed_key(view[Len(view)], key))

RECURSIVE PrefixedStorage_set_leaky(_, _, _, _)
\* mutant: each view also sets the value at the key as it received it
PrefixedStorage_set_leaky(s, view, key, value) ==
    IF view = <<>> THEN storage_set(s, key, value)
    ELSE storage_set(PrefixedStorage_set_leaky(s, SubSeq(view, 1, Len(view) - 1),
                                               prefixed_key(view[Len(view)], key), value),
                     key, value)

RECURSIVE PrefixedStorage_set(_, _, _, _)
\* PrefixedStorage::set: prepend the prefix, hand key and value to the wrapped storage
PrefixedStorage_set(s, view, key, value) ==
    IF view = <<>> THEN storage_set(s, key, value)
    ELSE PrefixedStorage_set(s, SubSeq(view, 1, Len(view) - 1),
                             prefixed_key(view[Len(view)], key), value)

RECURSIVE nested_from(_, _, _)
\* views built one over the other with new, from the i-th segment of the chain on
nested_from(chain, i, storage) ==
    IF i > Len(chain) THEN storage
    ELSE nested_from(chain, i + 1, PrefixedStorage_new(chain[i], storage))

\* let mut foo = PrefixedStorage::new(s1, &mut storage);
\* let mut bar = PrefixedStorage::new(s2, &mut foo); ...
nested_views(chain) == nested_from(chain, 1, <<>>)

RECURSIVE nested_ro_from(_, _, _)
\* read-only views built one over the other, from the i-th segment on
nested_ro_from(chain, i, storage) ==
    IF i > Len(chain) THEN storage
    ELSE nested_ro_from(chain, i + 1, ReadonlyPrefixedStorage_new(chain[i], storage))

\* let a = ReadonlyPrefixedStorage::new(s1, &storage);
\* let b = ReadonlyPrefixedStorage::new(s2, &a); ...
nested_ro_views(chain) == nested_ro_from(chain, 1, <<>>)

\* the view a caller builds over the flat store for a chain, in one of the forms
\* "new" (one segment), "nested" (new over new ...) and "multilevel"
rw_view(form, chain) ==
    CASE form = "new" -> PrefixedStorage_new(chain[1], <<>>)
      [] form = "nested" -> nested_views(chain)
      [] form = "multilevel" -> PrefixedStorage_multilevel(chain, <<>>)

\* the same for a read-only view
ro_view(form, chain) ==
    CASE form = "new" -> ReadonlyPrefixedStorage_new(chain[1], <<>>)
      [] form = "nested" -> nested_ro_views(chain)
      [] form = "multilevel" -> ReadonlyPrefixedStorage_multilevel(chain, <<>>)

FormsOf(chain) == IF Len(chain) = 1 THEN {"new", "multilevel"} ELSE {"nested", "multilevel"}

(***************************************************************************)
(* The codec (type_helpers): serialize, and deserialize that fails on      *)
(* bytes that are not the encoding of a value of the expected type.  A     *)
(* Data value is its age; an IndexEntry is its refs, a sequence of primary *)
(* keys.                                                                   *)
(***************************************************************************)
\* first byte of a serialized Data
DataTag == 68
\* first byte of a serialized IndexEntry
EntryTag == 69

RECURSIVE ser_refs(_)
\* the refs of an IndexEntry, each as its length and its bytes
ser_refs(refs) ==
    IF refs = <<>> THEN <<>>
    ELSE (<<Len(Head(refs))>> \o Head(refs)) \o ser_refs(Tail(refs))

RECURSIVE de_refs(_)
\* the inverse of ser_refs, or an error when the bytes end inside a ref
de_refs(bytes) ==
    IF bytes = <<>> THEN Ok(<<>>)
    ELSE IF Len(bytes) < 1 + bytes[1] THEN Err("ParseErr")
    ELSE LET rest == de_refs(SubSeq(bytes, bytes[1] + 2, Len(bytes)))
         IN  IF IsErr(rest) THEN rest
             ELSE Ok(<<SubSeq(bytes, 2, bytes[1] + 1)>> \o rest[2])

\* serialize(&T) -> Result<Vec<u8>>
serialize(T, value) ==
    IF T = "Data" THEN Ok(<<DataTag, value>>)
    ELSE Ok(<<EntryTag>> \o ser_refs(value))

\* deserialize::<T>(&[u8]) -> Result<T>
deserialize(T, bytes) ==
    IF T = "Data"
    THEN IF Len(bytes) = 2 /\ bytes[1] = DataTag THEN Ok(bytes[2]) ELSE Err("ParseErr")
    ELSE IF Len(bytes) >= 1 /\ bytes[1] = EntryTag THEN de_refs(Tail(bytes))
         ELSE Err("ParseErr")

\* must_deserialize(&Option<Vec<u8>>) -> Result<T>
must_deserialize(T, value) ==
    IF value = None THEN Err("NotFound") ELSE deserialize(T, value[1])

\* may_deserialize(&Option<Vec<u8>>) -> Result<Option<T>>
may_deserialize(T, value) ==
    IF value = None THEN Ok(None)
    ELSE LET d == deserialize(T, value[1])
         IN  IF IsErr(d) THEN d ELSE Ok(Some(d[2]))

(***************************************************************************)
(* namespace_helpers: the prefix of buckets and indexes, which is the      *)
(* namespace after its length as two bytes, big-endian (index.rs,          *)
(* test::build_index: key_prefix(b"foo") is [0, 3, 'f', 'o', 'o']).        *)
(***************************************************************************)
\* key_prefix(namespace: &[u8]) -> Vec<u8>
key_prefix(namespace) ==
    <<(Len(namespace) \div 256) % 256, Len(namespace) % 256>> \o namespace

\* get_with_prefix(storage, prefix, key) -> Option<Vec<u8>>
get_with_prefix(s, prefix, key) == storage_get(s, prefix \o key)

\* set_with_prefix(storage, prefix, key, value)
set_with_prefix(s, prefix, key, value) == storage_set(s, prefix \o key, value)

(***************************************************************************)
(* Buckets, bucket.rs.  A bucket is its prefix; the writing operations take *)
(* the store and return the store they leave, their result and the number  *)
(* of values they set in the store.                                        *)
(***************************************************************************)
\* Bucket::new(namespace, storage)
Bucket_new(namespace) == key_prefix(namespace)

\* ReadonlyBucket::new(namespace, storage)
ReadonlyBucket_new(namespace) == key_prefix(namespace)

\* the unit value of Ok(())
Unit == <<>>

\* Bucket::save(&mut self, key, data) -> Result<()>
Bucket_save(s, prefix, key, data) ==
    LET bytes == serialize("Data", data)
    IN  IF IsErr(bytes) THEN <<s, bytes, 0>>
        ELSE <<set_with_prefix(s, prefix, key, bytes[2]), Ok(Unit), 1>>

\* Bucket::load(&self, key) -> Result<T>
Bucket_load(s, prefix, key) ==
    must_deserialize("Data", get_with_prefix(s, prefix, key))

\* mutant: bytes that do not parse are reported as an absent value
Bucket_may_load_lenient(s, prefix, key) ==
    LET loaded == may_deserialize("Data", get_with_prefix(s, prefix, key))
    IN  IF IsErr(loaded) THEN Ok(None) ELSE loaded

\* Bucket::may_load(&self, key) -> Result<Option<T>>
Bucket_may_load(s, prefix, key) ==
    may_deserialize("Data", get_with_prefix(s, prefix, key))

\* ReadonlyBucket::load(&self, key) -> Result<T>
ReadonlyBucket_load(s, prefix, key) ==
    must_deserialize("Data", get_with_prefix(s, prefix, key))

\* ReadonlyBucket::may_load(&self, key) -> Result<Option<T>>
ReadonlyBucket_may_load(s, prefix, key) ==
    may_deserialize("Data", get_with_prefix(s, prefix, key))

\* the closures callers hand to update: |mut d| { d.age += 1; Ok(d) } and
\* |_d| ContractErr { .. }.fail()
UpdateActions == {"birthday", "fail"}

apply_update(action, input) ==
    IF action = "birthday" THEN Ok(input + 1) ELSE Err("ContractErr")

\* mutant: a missing value is replaced by the default Data (age 0), as
\* add_key does for a missing IndexEntry
Bucket_update_or_default(s, prefix, key, action) ==
    LET loaded == Bucket_may_load(s, prefix, key)
    IN  IF IsErr(loaded) THEN <<s, loaded, 0>>
        ELSE LET input == IF loaded[2] = None THEN 0 ELSE loaded[2][1]
                 output == apply_update(action, input)
             IN  IF IsErr(output) THEN <<s, output, 0>>
                 ELSE LET saved == Bucket_save(s, prefix, key, output[2])
                      IN  IF IsErr(saved[2]) THEN saved
                          ELSE <<saved[1], Ok(output[2]), saved[3]>>

\* mutant: the value that was loaded is saved back, not the action's output
Bucket_update_saves_input(s, prefix, key, action) ==
    LET input == Bucket_load(s, prefix, key)
    IN  IF IsErr(input) THEN <<s, input, 0>>
        ELSE LET output == apply_update(action, input[2])
             IN  IF IsErr(output) THEN <<s, output, 0>>
                 ELSE LET saved == Bucket_save(s, prefix, key, input[2])
                      IN  IF IsErr(saved[2]) THEN saved
                          ELSE <<saved[1], Ok(output[2]), saved[3]>>

\* Bucket::update(&mut self, key, action) -> Result<T>
Bucket_update(s, prefix, key, action) ==
    LET input == Bucket_load(s, prefix, key)
    IN  IF IsErr(input) THEN <<s, input, 0>>
        ELSE LET output == apply_update(action, input[2])
             IN  IF IsErr(output) THEN <<s, output, 0>>
                 ELSE LET saved == Bucket_save(s, prefix, key, output[2])
                      IN  IF IsErr(saved[2]) THEN saved
                          ELSE <<saved[1], Ok(output[2]), saved[3]>>

\* the closures callers hand to may_update: the "only set first time" closure
\* |t| match t { Some(_) => Ok(None), None => Ok(Some(Data{age: 42})) }, one
\* that ages a present record and leaves an absent one absent, and one that
\* fails
MayUpdateActions == {"first", "bump", "fail"}

apply_may_update(action, input) ==
    IF action = "first"
    THEN IF input = None THEN Ok(Some(42)) ELSE Ok(None)
    ELSE IF action = "bump"
    THEN IF input = None THEN Ok(None) ELSE Ok(Some(input[1] + 1))
    ELSE Err("ContractErr")

\* mutant: the input is loaded as update loads it, so absence is an error
Bucket_may_update_must_load(s, prefix, key, action) ==
    LET input == Bucket_load(s, prefix, key)
    IN  IF IsErr(input) THEN <<s, input, 0>>
        ELSE LET output == apply_may_update(action, Some(input[2]))
             IN  IF IsErr(output) THEN <<s, output, 0>>
                 ELSE IF output[2] # None
                      THEN LET saved == Bucket_save(s, prefix, key, output[2][1])
                           IN  IF IsErr(saved[2]) THEN saved
                               ELSE <<saved[1], Ok(output[2]), saved[3]>>
                      ELSE <<s, Ok(output[2]), 0>>

\* Bucket::may_update(&mut self, key, action) -> Result<Option<T>>
Bucket_may_update(s, prefix, key, action) ==
    LET input == Bucket_may_load(s, prefix, key)
    IN  IF IsErr(input) THEN <<s, input, 0>>
        ELSE LET output == apply_may_update(action, input[2])
             IN  IF IsErr(output) THEN <<s, output, 0>>
                 ELSE IF output[2] # None
                      THEN LET saved == Bucket_save(s, prefix, key, output[2][1])
                           IN  IF IsErr(saved[2]) THEN saved
                               ELSE <<saved[1], Ok(output[2]), saved[3]>>
                      ELSE <<s, Ok(output[2]), 0>>

(***************************************************************************)
(* Typed storage (typed): load, may_load and save of an IndexEntry at a    *)
(* flat key of the store, through the codec.                               *)
(***************************************************************************)
\* typed(storage).load(key) -> Result<IndexEntry>
typed_load(s, key) == must_deserialize("IndexEntry", storage_get(s, key))

\* typed(storage).may_load(key) -> Result<Option<IndexEntry>>
typed_may_load(s, key) == may_deserialize("IndexEntry", storage_get(s, key))

\* typed(storage).save(key, &entry) -> Result<()>
typed_save(s, key, entry) ==
    LET bytes == serialize("IndexEntry", entry)
    IN  IF IsErr(bytes) THEN <<s, bytes, 0>>
        ELSE <<storage_set(s, key, bytes[2]), Ok(Unit), 1>>

(***************************************************************************)
(* The index maintainer, index.rs.  An operation on the store returns the  *)
(* store it leaves (s), its result (res) and the numbers of index entries  *)
(* it read (nr) and wrote (nw).                                            *)
(***************************************************************************)
\* u32::to_be_bytes
to_be_bytes(n) ==
    <<(n \div 16777216) % 256, (n \div 65536) % 256, (n \div 256) % 256, n % 256>>

\* the index functions callers register: |p: &Person| p.age.to_be_bytes().to_vec()
apply_index(action, item) == IF action = "age" THEN to_be_bytes(item.age) ELSE <<>>

\* pub fn index(namespace, action) -> Index<T>
index(namespace, action) == [prefix |-> key_prefix(namespace), action |-> action]

\* mutant: the index value goes in front of the prefix
calc_key_value_first(idx, item) == apply_index(idx.action, item) \o idx.prefix

\* Index::calc_key(&self, item) -> Vec<u8>
calc_key(idx, item) == idx.prefix \o apply_index(idx.action, item)

\* IndexEntry::default()
DefaultEntry == <<>>

\* mutant: the entry is saved back with the primary key still in it
remove_key_keeps(s, idx, pk) ==
    LET entry == typed_load(s, idx)
    IN  IF IsErr(entry) THEN [s |-> s, res |-> entry, nr |-> 1, nw |-> 0]
        ELSE LET saved == typed_save(s, idx, entry[2])
             IN  [s |-> saved[1], res |-> saved[2], nr |-> 1, nw |-> saved[3]]

\* mutant: the entry is saved back only when the filter took something out
remove_key_lazy(s, idx, pk) ==
    LET entry == typed_load(s, idx)
    IN  IF IsErr(entry) THEN [s |-> s, res |-> entry, nr |-> 1, nw |-> 0]
        ELSE LET refs == SelectSeq(entry[2], LAMBDA r : r # pk)
                 saved == IF refs = entry[2] THEN <<s, Ok(Unit), 0>>
                          ELSE typed_save(s, idx, refs)
             IN  [s |-> saved[1], res |-> saved[2], nr |-> 1, nw |-> saved[3]]

\* mutant: an entry that becomes empty is taken out of the store
remove_key_prunes(s, idx, pk) ==
    LET entry == typed_load(s, idx)
    IN  IF IsErr(entry) THEN [s |-> s, res |-> entry, nr |-> 1, nw |-> 0]
        ELSE LET refs == SelectSeq(entry[2], LAMBDA r : r # pk)
                 saved == IF refs = <<>>
                          THEN <<[x \in (DOMAIN s) \ {idx} |-> s[x]], Ok(Unit), 1>>
                          ELSE typed_save(s, idx, refs)
             IN  [s |-> saved[1], res |-> saved[2], nr |-> 1, nw |-> saved[3]]

\* mutant: a missing entry is taken for an empty one, as add_key takes it
remove_key_or_default(s, idx, pk) ==
    LET loaded == typed_may_load(s, idx)
    IN  IF IsErr(loaded) THEN [s |-> s, res |-> loaded, nr |-> 1, nw |-> 0]
        ELSE LET entry == IF loaded[2] = None THEN DefaultEntry ELSE loaded[2][1]
                 refs == SelectSeq(entry, LAMBDA r : r # pk)
                 saved == typed_save(s, idx, refs)
             IN  [s |-> saved[1], res |-> saved[2], nr |-> 1, nw |-> saved[3]]

\* fn remove_key(storage, idx, pk) -> Result<()>
remove_key(s, idx, pk) ==
    LET entry == typed_load(s, idx)
    IN  IF IsErr(entry) THEN [s |-> s, res |-> entry, nr |-> 1, nw |-> 0]
        ELSE LET refs == SelectSeq(entry[2], LAMBDA r : r # pk)
                 saved == typed_save(s, idx, refs)
             IN  [s |-> saved[1], res |-> saved[2], nr |-> 1, nw |-> saved[3]]

\* mutant: the entry is replaced by one that holds the primary key alone
add_key_overwrites(s, idx, pk) ==
    LET loaded == typed_may_load(s, idx)
    IN  IF IsErr(loaded) THEN [s |-> s, res |-> loaded, nr |-> 1, nw |-> 0]
        ELSE LET saved == typed_save(s, idx, Append(DefaultEntry, pk))
             IN  [s |-> saved[1], res |-> saved[2], nr |-> 1, nw |-> saved[3]]

\* fn add_key(storage, idx, pk) -> Result<()>
add_key(s, idx, pk) ==
    LET loaded == typed_may_load(s, idx)
    IN  IF IsErr(loaded) THEN [s |-> s, res |-> loaded, nr |-> 1, nw |-> 0]
        ELSE LET entry == IF loaded[2] = None THEN DefaultEntry ELSE loaded[2][1]
                 saved == typed_save(s, idx, Append(entry, pk))
             IN  [s |-> saved[1], res |-> saved[2], nr |-> 1, nw |-> saved[3]]

\* mutant: no early return when the index value is unchanged
write_index_no_shortcut(s, idx, pk, old_val, new_val) ==
    LET new_idx == calc_key(idx, new_val)
    IN  IF old_val # None
        THEN LET removed == remove_key(s, calc_key(idx, old_val[1]), pk)
             IN  IF IsErr(removed.res) THEN removed
                 ELSE LET added == add_key(removed.s, new_idx, pk)
                      IN  [s |-> added.s, res |-> added.res,
                           nr |-> removed.nr + added.nr, nw |-> removed.nw + added.nw]
        ELSE add_key(s, new_idx, pk)

\* mutant: the primary key is added under the new value before it is removed
\* from the old one
write_index_add_first(s, idx, pk, old_val, new_val) ==
    LET new_idx == calc_key(idx, new_val)
    IN  IF old_val # None
        THEN IF calc_key(idx, old_val[1]) = new_idx
             THEN [s |-> s, res |-> Ok(Unit), nr |-> 0, nw |-> 0]
             ELSE LET added == add_key(s, new_idx, pk)
                  IN  IF IsErr(added.res) THEN added
                      ELSE LET removed == remove_key(added.s, calc_key(idx, old_val[1]), pk)
                           IN  [s |-> removed.s, res |-> removed.res,
                                nr |-> removed.nr + added.nr, nw |-> removed.nw + added.nw]
        ELSE add_key(s, new_idx, pk)

\* fn write_index(storage, idx, pk, old_val: Option<&T>, new_val: &T) -> Result<()>
write_index(s, idx, pk, old_val, new_val) ==
    LET old_idx == IF old_val = None THEN None ELSE Some(calc_key(idx, old_val[1]))
        new_idx == calc_key(idx, new_val)
    IN  IF old_idx # None
        THEN IF old_idx[1] = new_idx
             THEN [s |-> s, res |-> Ok(Unit), nr |-> 0, nw |-> 0]
             ELSE LET removed == remove_key(s, old_idx[1], pk)
                  IN  IF IsErr(removed.res) THEN removed
                      ELSE LET added == add_key(removed.s, new_idx, pk)
                           IN  [s |-> added.s, res |-> added.res,
                                nr |-> removed.nr + added.nr, nw |-> removed.nw + added.nw]
        ELSE add_key(s, new_idx, pk)

\* fn load_keys(storage, idx) -> Result<Option<IndexEntry>>
load_keys(s, idx) == typed_may_load(s, idx)

(***************************************************************************)
(* The record of the last operation.                                       *)
(***************************************************************************)
Ret(op, form, chain, key, arg, res, nr, nw) ==
    [op |-> op, form |-> form, chain |-> chain, key |-> key, arg |-> arg,
     res |-> res, nr |-> nr, nw |-> nw]

RetIdle == Ret("none", "", <<>>, <<>>, <<>>, <<>>, 0, 0)

(***************************************************************************)
(* The encoder harness: one (namespace chain, suffix) pair is drawn and    *)
(* encoded the way a view built by new / multilevel encodes a key.         *)
(***************************************************************************)
EncBytes == {0, 1}
EncSegments == {<<>>, <<0>>, <<1>>, <<0, 1>>}
EncChains == SeqsUpTo(EncSegments, MaxChainLen) \ {<<>>}
EncSuffixes == SeqsUpTo(EncBytes, MaxSuffixLen)

\* the flat key of suffix s under chain c, as PrefixedStorage::multilevel(c).set(s, _) forms it
encode_chain(c, s) == prefixed_key(multi_length_prefix(c), s)

RECURSIVE Flatten(_)
\* the segments of a chain, concatenated raw
Flatten(c) == IF c = <<>> THEN <<>> ELSE Head(c) \o Flatten(Tail(c))

EncIdle == [stage |-> "idle", chain |-> <<>>, suffix |-> <<>>, key |-> <<>>]

EncInit ==
    /\ store = EmptyStore
    /\ pre = EmptyStore
    /\ lastW = <<>>
    /\ owner = <<>>
    /\ ret = RetIdle
    /\ nops = 0
    /\ \E c \in EncChains, s \in EncSuffixes :
          enc = [stage |-> "input", chain |-> c, suffix |-> s, key |-> <<>>]

\* PrefixedStorage::new(ns, _).set(suffix, _): the key handed to the store
EncodeNew ==
    /\ enc.stage = "input"
    /\ Len(enc.chain) = 1
    /\ length_prefix(enc.chain[1]) # Panic
    /\ enc' = [enc EXCEPT !.stage = "new",
                          !.key = prefixed_key(length_prefix(enc.chain[1]), enc.suffix)]
    /\ UNCHANGED <<store, pre, lastW, owner, ret, nops>>

\* PrefixedStorage::multilevel(chain, _).set(suffix, _): the key handed to the store
EncodeMultilevel ==
    /\ enc.stage = "input"
    /\ multi_length_prefix(enc.chain) # Panic
    /\ enc' = [enc EXCEPT !.stage = "multi",
                          !.key = prefixed_key(multi_length_prefix(enc.chain), enc.suffix)]
    /\ UNCHANGED <<store, pre, lastW, owner, ret, nops>>

EncNext == EncodeNew \/ EncodeMultilevel

SpecEnc == EncInit /\ [][EncNext]_vars

(***************************************************************************)
(* C1                                                                      *)
(***************************************************************************)
\* C1 (as stated): the flat-key encoding is injective over (chain, suffix)
\* pairs of any, possibly different, chain lengths: no other pair has the
\* flat key that was computed for the encoded pair.
C1_InjectiveAnyLength ==
    enc.stage \in {"new", "multi"} =>
        \A c \in EncChains, s \in EncSuffixes :
            encode_chain(c, s) = enc.key => (c = enc.chain /\ s = enc.suffix)

\* C1 (amended): the encoding is injective over (chain, suffix) pairs whose
\* chains have the same number of segments.
C1_InjectiveSameLength ==
    enc.stage \in {"new", "multi"} =>
        \A c \in EncChains, s \in EncSuffixes :
            (Len(c) = Len(enc.chain) /\ encode_chain(c, s) = enc.key)
                => (c = enc.chain /\ s = enc.suffix)

\* C1 witness: a pair has been encoded for which another pair with as many
\* segments has the same raw concatenation, so only the length bytes tell
\* the two apart.
C1_Witness ==
    /\ enc.stage = "multi"
    /\ Len(enc.chain) = 2
    /\ \E c \in EncChains, s \in EncSuffixes :
          /\ Len(c) = 2
          /\ <<c, s>> # <<enc.chain, enc.suffix>>
          /\ Flatten(c) \o s = Flatten(enc.chain) \o enc.suffix
          /\ encode_chain(c, s) # enc.key

(***************************************************************************)
(* Spec: callers write and read one flat store through prefixed views      *)
(* (read-write and read-only; built by new, by nesting, by multilevel) and *)
(* through buckets.                                                        *)
(***************************************************************************)
NsSegments == {<<>>, <<1>>, <<1, 1>>}
ViewChains == {<<n>> : n \in NsSegments} \cup {<< <<>>, <<>> >>, << <<1>>, <<1, 1>> >>}
Keys == {<<>>, <<0>>, <<2>>, <<1, 2>>}
ViewVals == {<<7>>, <<8>>}
DataVals == {42, 43}

\* the logical keys callers write and read: pairs whose raw concatenations
\* agree, and pairs whose flat keys agree across kinds of view and depths
ViewTargets ==
    { << << <<>> >>, <<0>> >>, << << <<>> >>, <<>> >>,
      << << <<1>> >>, <<1, 2>> >>, << << <<1, 1>> >>, <<2>> >>,
      << << <<>>, <<>> >>, <<>> >>, << << <<1>>, <<1, 1>> >>, <<2>> >> }
BucketTargets ==
    { << <<>>, <<>> >>, << <<1>>, <<1, 2>> >>, << <<1, 1>>, <<2>> >> }

Put(f, k, v) == [x \in (DOMAIN f) \cup {k} |-> IF x = k THEN v ELSE f[x]]

RECURSIVE wrapped_key(_, _)
\* ghost: the key that reaches the flat store when key is given to a stack of views
wrapped_key(view, key) ==
    IF view = <<>> THEN key
    ELSE wrapped_key(SubSeq(view, 1, Len(view) - 1), prefixed_key(view[Len(view)], key))

\* ghost: the kind of view and the nesting depth a logical key was written through
Family(id) == <<id[1], Len(id[2])>>

Init ==
    /\ store = EmptyStore
    /\ pre = EmptyStore
    /\ lastW = <<>>
    /\ owner = <<>>
    /\ ret = RetIdle
    /\ nops = 0
    /\ enc = EncIdle

\* view.set(key, value) through a read-write view over the store
ViewSet ==
    /\ nops < MaxOps
    /\ \E target \in ViewTargets, value \in ViewVals :
         \E form \in FormsOf(target[1]) :
            LET chain == target[1]
                key == target[2]
                view == rw_view(form, chain)
                id == <<"view", chain, key>>
                flat == wrapped_key(view, key)
            IN  /\ Panic \notin {view[i] : i \in 1..Len(view)}
                /\ store' = PrefixedStorage_set(store, view, key, value)
                /\ lastW' = Put(lastW, id, [val |-> value, flat |-> flat])
                /\ owner' = Put(owner, flat, id)
                /\ ret' = Ret("set", form, chain, key, value, Unit, 0, 1)
    /\ pre' = store
    /\ nops' = nops + 1
    /\ UNCHANGED enc

\* view.get(key) through a read-write view
ViewGet ==
    /\ nops < MaxOps
    /\ \E target \in ViewTargets :
         \E form \in FormsOf(target[1]) :
            LET chain == target[1]
                key == target[2]
                view == rw_view(form, chain)
            IN  /\ Panic \notin {view[i] : i \in 1..Len(view)}
                /\ ret' = Ret("get", form, chain, key, "rw",
                              PrefixedStorage_get(store, view, key), 1, 0)
    /\ pre' = store
    /\ nops' = nops + 1
    /\ UNCHANGED <<store, lastW, owner, enc>>

\* view.get(key) through a read-only view
ViewGetReadonly ==
    /\ nops < MaxOps
    /\ \E target \in ViewTargets :
         \E form \in FormsOf(target[1]) :
            LET chain == target[1]
                key == target[2]
                view == ro_view(form, chain)
            IN  /\ Panic \notin {view[i] : i \in 1..Len(view)}
                /\ ret' = Ret("get", form, chain, key, "ro",
                              ReadonlyPrefixedStorage_get(store, view, key), 1, 0)
    /\ pre' = store
    /\ nops' = nops + 1
    /\ UNCHANGED <<store, lastW, owner, enc>>

\* bucket(namespace, &mut store).save(key, &data)
BucketSave ==
    /\ nops < MaxOps
    /\ \E target \in BucketTargets, data \in DataVals :
         LET ns == target[1]
             key == target[2]
             prefix == Bucket_new(ns)
             r == Bucket_save(store, prefix, key, data)
             id == <<"bucket", <<ns>>, key>>
             flat == prefix \o key
         IN  /\ store' = r[1]
             /\ lastW' = IF IsOk(r[2]) THEN Put(lastW, id, [val |-> data, flat |-> flat])
                         ELSE lastW
             /\ owner' = IF IsOk(r[2]) THEN Put(owner, flat, id) ELSE owner
             /\ ret' = Ret("save", "bucket", <<ns>>, key, data, r[2], 0, r[3])
    /\ pre' = store
    /\ nops' = nops + 1
    /\ UNCHANGED enc

\* load and may_load of a bucket and of a read-only bucket
BucketLoad ==
    /\ nops < MaxOps
    /\ \E ns \in NsSegments, key \in Keys :
         /\ <<ns, key>> \in BucketTargets
         /\ \/ ret' = Ret("load", "bucket", <<ns>>, key, <<>>,
                          Bucket_load(store, Bucket_new(ns), key), 1, 0)
            \/ ret' = Ret("may_load", "bucket", <<ns>>, key, <<>>,
                          Bucket_may_load(store, Bucket_new(ns), key), 1, 0)
            \/ ret' = Ret("load", "readonly", <<ns>>, key, <<>>,
                          ReadonlyBucket_load(store, ReadonlyBucket_new(ns), key), 1, 0)
            \/ ret' = Ret("may_load", "readonly", <<ns>>, key, <<>>,
                          ReadonlyBucket_may_load(store, ReadonlyBucket_new(ns), key), 1, 0)
    /\ pre' = store
    /\ nops' = nops + 1
    /\ UNCHANGED <<store, lastW, owner, enc>>

Next == ViewSet \/ ViewGet \/ ViewGetReadonly \/ BucketSave \/ BucketLoad

Spec == Init /\ [][Next]_vars

(***************************************************************************)
(* C2                                                                      *)
(***************************************************************************)
\* every write so far went through a single-namespace view or bucket
AllSingle == \A id \in DOMAIN lastW : Len(id[2]) = 1

\* what a reader under the single namespace ns finds at key, through a view
ViewPresent(ns, key) ==
    \/ PrefixedStorage_get(store, PrefixedStorage_new(ns, <<>>), key) # None
    \/ ReadonlyPrefixedStorage_get(store, ReadonlyPrefixedStorage_new(ns, <<>>), key) # None

\* what a reader under the single namespace ns finds at key, through a bucket
BucketPresent(ns, key) ==
    \/ Bucket_may_load(store, Bucket_new(ns), key) # Ok(None)
    \/ Bucket_load(store, Bucket_new(ns), key) # Err("NotFound")
    \/ ReadonlyBucket_may_load(store, ReadonlyBucket_new(ns), key) # Ok(None)
    \/ ReadonlyBucket_load(store, ReadonlyBucket_new(ns), key) # Err("NotFound")

\* ghost: a write through another kind of view than kind put the flat key flat
OtherKindWrote(kind, flat) ==
    \E id \in DOMAIN lastW : id[1] # kind /\ lastW[id].flat = flat

\* C2 (as stated): after any sequence of set/save operations through
\* single-namespace views, a read of key k under namespace ns2 finds nothing
\* unless an earlier write was made to exactly (ns2, k).
C2_Isolation ==
    AllSingle =>
        \A ns2 \in NsSegments, k \in Keys :
            /\ ViewPresent(ns2, k) => <<"view", <<ns2>>, k>> \in DOMAIN lastW
            /\ BucketPresent(ns2, k) => <<"bucket", <<ns2>>, k>> \in DOMAIN lastW

\* C2 (amended): the same among views of one kind: a read through a
\* PrefixedStorage (a Bucket) finds nothing unless an earlier write was made
\* to exactly (ns2, k) through a PrefixedStorage (a Bucket), or a write
\* through the other kind of view put the same flat key.
C2_IsolationSameKind ==
    AllSingle =>
        \A ns2 \in NsSegments, k \in Keys :
            /\ ViewPresent(ns2, k) =>
                  \/ <<"view", <<ns2>>, k>> \in DOMAIN lastW
                  \/ OtherKindWrote("view", prefixed_key(length_prefix(ns2), k))
            /\ BucketPresent(ns2, k) =>
                  \/ <<"bucket", <<ns2>>, k>> \in DOMAIN lastW
                  \/ OtherKindWrote("bucket", key_prefix(ns2) \o k)

\* C2 witness: after a set at (<<1, 1>>, <<2>>), a get of <<1, 2>> under the
\* namespace <<1>>, whose raw concatenation is the same, has returned None.
C2_Witness ==
    /\ AllSingle
    /\ <<"view", << <<1, 1>> >>, <<2>>>> \in DOMAIN lastW
    /\ ret.op = "get"
    /\ ret.chain = << <<1>> >>
    /\ ret.key = <<1, 2>>
    /\ ret.res = None

(***************************************************************************)
(* C3                                                                      *)
(***************************************************************************)
\* every reader under the single namespace of id gets value at id's key
ReadsBack(id, value) ==
    LET ns == id[2][1]
        key == id[3]
    IN  IF id[1] = "view"
        THEN /\ PrefixedStorage_get(store, PrefixedStorage_new(ns, <<>>), key) = Some(value)
             /\ ReadonlyPrefixedStorage_get(store, ReadonlyPrefixedStorage_new(ns, <<>>), key)
                    = Some(value)
        ELSE /\ Bucket_load(store, Bucket_new(ns), key) = Ok(value)
             /\ Bucket_may_load(store, Bucket_new(ns), key) = Ok(Some(value))
             /\ ReadonlyBucket_load(store, ReadonlyBucket_new(ns), key) = Ok(value)
             /\ ReadonlyBucket_may_load(store, ReadonlyBucket_new(ns), key) = Ok(Some(value))

\* C3 (as stated): after any sequence of writes, a get/load of key k under
\* namespace ns returns exactly the value of the most recent set/save to (ns, k).
C3_ReadYourWrites ==
    \A id \in DOMAIN lastW :
        Len(id[2]) = 1 => ReadsBack(id, lastW[id].val)

\* C3 (amended): the same, provided the latest write that put the flat key of
\* (ns, k) went through the same kind of view at the same nesting depth.
C3_ReadYourWritesSameFamily ==
    \A id \in DOMAIN lastW :
        (Len(id[2]) = 1 /\ Family(owner[lastW[id].flat]) = Family(id))
            => ReadsBack(id, lastW[id].val)

\* C3 witness: a key was set twice under one namespace and a get through a
\* read-only view has returned the second value.
C3_Witness ==
    /\ ret.op = "get"
    /\ ret.arg = "ro"
    /\ Len(ret.chain) = 1
    /\ <<"view", ret.chain, ret.key>> \in DOMAIN lastW
    /\ ret.res = Some(lastW[<<"view", ret.chain, ret.key>>].val)

(***************************************************************************)
(* C4                                                                      *)
(***************************************************************************)
\* C4: a stack of single-level views nested s1 (outermost) .. sn and one
\* multilevel view over [s1..sn] read and write the byte-identical flat key:
\* both forms find the same thing at every key, and a value set through
\* either form is the value at that flat key and is returned by get through
\* the other form, read-write and read-only.
C4_NestingEquivalence ==
    /\ \A chain \in ViewChains, k \in Keys :
          /\ wrapped_key(nested_views(chain), k)
                = wrapped_key(PrefixedStorage_multilevel(chain, <<>>), k)
          /\ PrefixedStorage_get(store, nested_views(chain), k)
                = PrefixedStorage_get(store, PrefixedStorage_multilevel(chain, <<>>), k)
          /\ ReadonlyPrefixedStorage_get(store, nested_ro_views(chain), k)
                = ReadonlyPrefixedStorage_get(store,
                      ReadonlyPrefixedStorage_multilevel(chain, <<>>), k)
    /\ ret.op = "set" =>
          /\ PrefixedStorage_get(store, nested_views(ret.chain), ret.key) = Some(ret.arg)
          /\ PrefixedStorage_get(store, PrefixedStorage_multilevel(ret.chain, <<>>), ret.key)
                = Some(ret.arg)
          /\ ReadonlyPrefixedStorage_get(store, nested_ro_views(ret.chain), ret.key)
                = Some(ret.arg)
          /\ ReadonlyPrefixedStorage_get(store,
                 ReadonlyPrefixedStorage_multilevel(ret.chain, <<>>), ret.key) = Some(ret.arg)

\* C4 witness: a value set through two nested views is what a multilevel
\* read-only view over the same two segments returns.
C4_Witness ==
    /\ ret.op = "set"
    /\ ret.form = "nested"
    /\ ret.chain = << <<1>>, <<1, 1>> >>
    /\ ReadonlyPrefixedStorage_get(store,
           ReadonlyPrefixedStorage_multilevel(ret.chain, <<>>), ret.key) = Some(ret.arg)

(***************************************************************************)
(* SpecBucket: callers save, update and load through buckets; other        *)
(* writers of the store put bytes of their own at the buckets' flat keys.  *)
(***************************************************************************)
\* bytes that are no serialized Data
RawVals == {<<9>>}

\* bucket(namespace, &mut store).update(key, &action)
BucketUpdate ==
    /\ nops < MaxOps
    /\ \E target \in BucketTargets, action \in UpdateActions :
         LET ns == target[1]
             key == target[2]
             prefix == Bucket_new(ns)
             r == Bucket_update(store, prefix, key, action)
             id == <<"bucket", <<ns>>, key>>
             flat == prefix \o key
         IN  /\ store' = r[1]
             /\ lastW' = IF IsOk(r[2]) THEN Put(lastW, id, [val |-> r[2][2], flat |-> flat])
                         ELSE lastW
             /\ owner' = IF IsOk(r[2]) THEN Put(owner, flat, id) ELSE owner
             /\ ret' = Ret("update", action, <<ns>>, key, <<>>, r[2], 1, r[3])
    /\ pre' = store
    /\ nops' = nops + 1
    /\ UNCHANGED enc

\* bucket(namespace, &mut store).may_update(key, &action)
BucketMayUpdate ==
    /\ nops < MaxOps
    /\ \E target \in BucketTargets, action \in MayUpdateActions :
         LET ns == target[1]
             key == target[2]
             prefix == Bucket_new(ns)
             r == Bucket_may_update(store, prefix, key, action)
             id == <<"bucket", <<ns>>, key>>
             flat == prefix \o key
             wrote == r[3] > 0
         IN  /\ store' = r[1]
             /\ lastW' = IF wrote THEN Put(lastW, id, [val |-> r[2][2][1], flat |-> flat])
                         ELSE lastW
             /\ owner' = IF wrote THEN Put(owner, flat, id) ELSE owner
             /\ ret' = Ret("may_update", action, <<ns>>, key, <<>>, r[2], 1, r[3])
    /\ pre' = store
    /\ nops' = nops + 1
    /\ UNCHANGED enc

\* store.set(flat key, bytes) by a writer that does not go through a bucket
RawSet ==
    /\ nops < MaxOps
    /\ \E target \in BucketTargets, bytes \in RawVals :
         LET flat == key_prefix(target[1]) \o target[2]
             id == <<"raw", <<>>, flat>>
         IN  /\ store' = storage_set(store, flat, bytes)
             /\ lastW' = Put(lastW, id, [val |-> bytes, flat |-> flat])
             /\ owner' = Put(owner, flat, id)
             /\ ret' = Ret("raw_set", "", <<>>, flat, bytes, Unit, 0, 1)
    /\ pre' = store
    /\ nops' = nops + 1
    /\ UNCHANGED enc

BucketNext == BucketSave \/ BucketUpdate \/ BucketMayUpdate \/ BucketLoad \/ RawSet

SpecBucket == Init /\ [][BucketNext]_vars

(***************************************************************************)
(* C9                                                                      *)
(***************************************************************************)
\* C9: a failing update leaves the store unchanged: on an absent key it
\* returns NotFound and writes nothing (the key is still absent); on a
\* present key whose action fails it returns the action's error, and the
\* value at the key and at every other key is what it was before the call.
C9_FailedUpdateNoWrite ==
    ret.op = "update" =>
        LET prefix == Bucket_new(ret.chain[1])
            before == Bucket_may_load(pre, prefix, ret.key)
        IN  /\ IsErr(ret.res) => (store = pre /\ ret.nw = 0)
            /\ before = Ok(None) =>
                  /\ ret.res = Err("NotFound")
                  /\ Bucket_may_load(store, prefix, ret.key) = Ok(None)
            /\ (IsOk(before) /\ before # Ok(None)
                    /\ IsErr(apply_update(ret.form, before[2][1]))) =>
                  /\ ret.res = apply_update(ret.form, before[2][1])
                  /\ Bucket_load(store, prefix, ret.key) = Ok(before[2][1])

\* C9 witness: an update whose action fails has run on a present key.
C9_Witness ==
    /\ ret.op = "update"
    /\ ret.form = "fail"
    /\ ret.res = Err("ContractErr")
    /\ IsOk(Bucket_load(store, Bucket_new(ret.chain[1]), ret.key))

(***************************************************************************)
(* C10                                                                     *)
(***************************************************************************)
\* C10: a successful update is load-apply-save: on a present key holding x,
\* with action(x) = Ok(y), update returns y and leaves the store that
\* save(k, y) leaves, where load(k) returns y; and update succeeds only so.
C10_UpdateIsLoadApplySave ==
    ret.op = "update" =>
        LET prefix == Bucket_new(ret.chain[1])
            x == Bucket_load(pre, prefix, ret.key)
        IN  /\ (IsOk(x) /\ IsOk(apply_update(ret.form, x[2]))) =>
                  LET y == apply_update(ret.form, x[2])[2]
                  IN  /\ ret.res = Ok(y)
                      /\ store = Bucket_save(pre, prefix, ret.key, y)[1]
                      /\ Bucket_load(store, prefix, ret.key) = Ok(y)
            /\ IsOk(ret.res) => (IsOk(x) /\ IsOk(apply_update(ret.form, x[2])))

\* C10 witness: an update has succeeded and changed the stored value.
C10_Witness ==
    /\ ret.op = "update"
    /\ ret.form = "birthday"
    /\ ret.res = Ok(43)
    /\ Bucket_load(pre, Bucket_new(ret.chain[1]), ret.key) = Ok(42)
    /\ Bucket_load(store, Bucket_new(ret.chain[1]), ret.key) = Ok(43)

(***************************************************************************)
(* C11                                                                     *)
(***************************************************************************)
\* C11: may_update(k, f) calls f with None when k is absent and with
\* Some(stored value) when it is present; when f returns None nothing is
\* written and the value (or absence) at k is what it was; when f returns
\* Some(v), v is stored at k and returned.
C11_MayUpdate ==
    ret.op = "may_update" =>
        LET prefix == Bucket_new(ret.chain[1])
            input == Bucket_may_load(pre, prefix, ret.key)
        IN  IsOk(input) =>
              LET output == apply_may_update(ret.form, input[2])
              IN  /\ output = Ok(None) =>
                        /\ ret.res = Ok(None)
                        /\ ret.nw = 0
                        /\ store = pre
                        /\ Bucket_may_load(store, prefix, ret.key) = input
                  /\ (IsOk(output) /\ output # Ok(None)) =>
                        /\ ret.res = output
                        /\ ret.nw = 1
                        /\ store = Bucket_save(pre, prefix, ret.key, output[2][1])[1]
                        /\ Bucket_load(store, prefix, ret.key) = Ok(output[2][1])

\* C11 witness: on a key that held a value the "only set first time" closure
\* returned None and the value stayed.
C11_Witness ==
    /\ ret.op = "may_update"
    /\ ret.form = "first"
    /\ ret.res = Ok(None)
    /\ IsOk(Bucket_load(pre, Bucket_new(ret.chain[1]), ret.key))
    /\ Bucket_load(store, Bucket_new(ret.chain[1]), ret.key)
         = Bucket_load(pre, Bucket_new(ret.chain[1]), ret.key)

(***************************************************************************)
(* C12                                                                     *)
(***************************************************************************)
\* C12: absence and corruption are distinct outcomes.  On an absent key load
\* returns NotFound and may_load returns Ok(None); on a key holding bytes
\* that do not parse both return the parse error, never an absent value and
\* never NotFound; on well-formed bytes both return the value; neither call
\* changes the store.
C12_AbsentVersusMalformed ==
    ret.op \in {"load", "may_load"} =>
        LET raw == storage_get(store, key_prefix(ret.chain[1]) \o ret.key)
        IN  /\ store = pre
            /\ ret.nw = 0
            /\ raw = None =>
                  ret.res = IF ret.op = "load" THEN Err("NotFound") ELSE Ok(None)
            /\ (raw # None /\ IsErr(deserialize("Data", raw[1]))) =>
                  /\ ret.res = Err("ParseErr")
                  /\ ret.res # Ok(None)
                  /\ ret.res # Err("NotFound")
            /\ (raw # None /\ IsOk(deserialize("Data", raw[1]))) =>
                  ret.res = IF ret.op = "load" THEN Ok(deserialize("Data", raw[1])[2])
                            ELSE Ok(Some(deserialize("Data", raw[1])[2]))

\* C12 witness: may_load of a bucket met bytes that are no serialized Data.
C12_Witness ==
    /\ ret.op = "may_load"
    /\ ret.form = "bucket"
    /\ storage_get(store, key_prefix(ret.chain[1]) \o ret.key) = Some(<<9>>)
    /\ IsErr(ret.res)

(***************************************************************************)
(* SpecIndex: callers maintain one index with write_index and look entries *)
(* up with load_keys; other writers of the store put bytes of their own at *)
(* the index's flat keys.                                                  *)
(***************************************************************************)
Persons ==
    { [name |-> "Fred", age |-> 1], [name |-> "Fred", age |-> 127],
      [name |-> "Mary", age |-> 1] }
PrimaryKeys == {<<1>>, <<2>>}
\* the namespaces of the indexes callers build: b"foo" and b"fo"
IndexNamespaces == {<<102, 111, 111>>, <<102, 111>>}
Indexes == {index(ns, "age") : ns \in IndexNamespaces}

\* write_index(&mut store, &idx, pk, old_val, &new_val)
WriteIndex ==
    /\ nops < MaxIndexOps
    /\ \E idx \in Indexes, pk \in PrimaryKeys, new_val \in Persons :
         \E old_val \in {None} \cup {Some(p) : p \in Persons} :
            LET r == write_index(store, idx, pk, old_val, new_val)
            IN  /\ store' = r.s
                /\ ret' = Ret("write_index", "", idx, pk, <<old_val, new_val>>,
                              r.res, r.nr, r.nw)
    /\ pre' = store
    /\ nops' = nops + 1
    /\ UNCHANGED <<lastW, owner, enc>>

\* load_keys(&store, index key)
LoadKeys ==
    /\ nops < MaxIndexOps
    /\ \E idx \in Indexes, item \in Persons :
         ret' = Ret("load_keys", "", idx, calc_key(idx, item), <<>>,
                    load_keys(store, calc_key(idx, item)), 1, 0)
    /\ pre' = store
    /\ nops' = nops + 1
    /\ UNCHANGED <<store, lastW, owner, enc>>

\* store.set(index key, bytes) by a writer other than the index maintainer
IndexRawSet ==
    /\ nops < MaxIndexOps
    /\ \E idx \in Indexes, item \in Persons, bytes \in RawVals :
         /\ store' = storage_set(store, calc_key(idx, item), bytes)
         /\ ret' = Ret("raw_set", "", idx, calc_key(idx, item), bytes, Unit, 0, 1)
    /\ pre' = store
    /\ nops' = nops + 1
    /\ UNCHANGED <<lastW, owner, enc>>

IndexNext == WriteIndex \/ LoadKeys \/ IndexRawSet

SpecIndex == Init /\ [][IndexNext]_vars

\* the number of occurrences of pk in refs
Count(pk, refs) == Cardinality({i \in 1..Len(refs) : refs[i] = pk})

\* the refs of the entry stored at an index key: none when the key is absent
\* or holds no IndexEntry
RefsAt(s, key) ==
    LET e == typed_may_load(s, key)
    IN  IF IsErr(e) \/ e = Ok(None) THEN <<>> ELSE e[2][1]

\* the last operation was write_index; its arguments
IsWriteIndex == ret.op = "write_index"
OldVal == ret.arg[1]
NewVal == ret.arg[2]
OldKey == calc_key(ret.chain, OldVal[1])
NewKey == calc_key(ret.chain, NewVal)
\* the update case of write_index: an old value whose index value differs
IndexChanged ==
    /\ IsWriteIndex
    /\ OldVal # None
    /\ apply_index(ret.chain.action, OldVal[1]) # apply_index(ret.chain.action, NewVal)

(***************************************************************************)
(* C5                                                                      *)
(***************************************************************************)
\* C5 (as stated): after write_index(pk, None, new) the entry at
\* index_fn(new) contains pk exactly once; after write_index(pk, Some(new),
\* newer) with another index value the entry at index_fn(new) contains no pk
\* and the entry at index_fn(newer) contains pk exactly once.
C5_AddRemove ==
    (IsWriteIndex /\ IsOk(ret.res)) =>
        /\ OldVal = None => Count(ret.key, RefsAt(store, NewKey)) = 1
        /\ IndexChanged =>
              /\ Count(ret.key, RefsAt(store, OldKey)) = 0
              /\ Count(ret.key, RefsAt(store, NewKey)) = 1

\* C5 (amended): the same for a write_index that succeeds on a store whose
\* entry at the new index value did not hold pk already.
C5_AddRemoveFresh ==
    (IsWriteIndex /\ IsOk(ret.res)) =>
        /\ (OldVal = None /\ Count(ret.key, RefsAt(pre, NewKey)) = 0)
              => Count(ret.key, RefsAt(store, NewKey)) = 1
        /\ IndexChanged =>
              /\ Count(ret.key, RefsAt(store, OldKey)) = 0
              /\ Count(ret.key, RefsAt(pre, NewKey)) = 0
                    => Count(ret.key, RefsAt(store, NewKey)) = 1

\* C5 witness: a primary key that was in the entry at the old index value,
\* beside another primary key, has been moved to the entry at the new one.
C5_Witness ==
    /\ IndexChanged
    /\ IsOk(ret.res)
    /\ Count(ret.key, RefsAt(pre, OldKey)) = 1
    /\ Len(RefsAt(pre, OldKey)) = 2
    /\ Count(ret.key, RefsAt(store, OldKey)) = 0
    /\ Count(ret.key, RefsAt(store, NewKey)) = 1

(***************************************************************************)
(* C6                                                                      *)
(***************************************************************************)
\* C6: when old_value is present and index_fn(old_value) = index_fn(new_value),
\* write_index returns success, reads and writes nothing, and leaves every
\* key of the store as it was.
C6_UnchangedIndexNoOp ==
    (IsWriteIndex /\ OldVal # None
        /\ apply_index(ret.chain.action, OldVal[1]) = apply_index(ret.chain.action, NewVal))
    => /\ ret.res = Ok(Unit)
       /\ ret.nr = 0
       /\ ret.nw = 0
       /\ store = pre

\* C6 witness: a record was replaced by a different record with the same
\* index value while the entry at that value held the primary key.
C6_Witness ==
    /\ IsWriteIndex
    /\ OldVal # None
    /\ OldVal[1] # NewVal
    /\ apply_index(ret.chain.action, OldVal[1]) = apply_index(ret.chain.action, NewVal)
    /\ Count(ret.key, RefsAt(store, NewKey)) = 1

(***************************************************************************)
(* C7                                                                      *)
(***************************************************************************)
\* C7: when the index value changes and no entry is stored at the old index
\* value's flat key, the remove step does not fail: write_index adds pk to
\* the entry at the new index value and returns success.
C7_RemoveAbsentIsNoOp ==
    (IndexChanged /\ storage_get(pre, OldKey) = None
        /\ IsOk(typed_may_load(pre, NewKey)))
    => /\ ret.res = Ok(Unit)
       /\ Count(ret.key, RefsAt(store, NewKey)) >= 1

\* What remove_key does instead: typed load of the absent entry fails with
\* NotFound, write_index returns that error after one read, and the store,
\* the entry at the new index value included, is left as it was.
C7_RemoveAbsentFails ==
    (IndexChanged /\ storage_get(pre, OldKey) = None)
    => /\ ret.res = Err("NotFound")
       /\ ret.nr = 1
       /\ ret.nw = 0
       /\ store = pre

\* a write_index that changed the index value met no entry at the old one
C7_Reached ==
    /\ IndexChanged
    /\ storage_get(pre, OldKey) = None
    /\ IsOk(typed_may_load(pre, NewKey))

(***************************************************************************)
(* C8                                                                      *)
(***************************************************************************)
\* C8: when the index value changes, the remove-old step succeeds and the
\* add-new step fails (the bytes at the new index value's flat key are no
\* IndexEntry), write_index returns that error, the removal stays, and the
\* store holds pk neither in the entry at the old value nor at the new one.
C8_PartialFailureGap ==
    (IndexChanged /\ IsOk(typed_load(pre, OldKey)) /\ IsErr(typed_may_load(pre, NewKey)))
    => /\ ret.res = typed_may_load(pre, NewKey)
       /\ store = remove_key(pre, OldKey, ret.key).s
       /\ IsOk(typed_load(store, OldKey))
       /\ Count(ret.key, typed_load(store, OldKey)[2]) = 0
       /\ Count(ret.key, RefsAt(store, NewKey)) = 0
       /\ storage_get(store, NewKey) = storage_get(pre, NewKey)
       /\ ret.nw = 1

\* C8 witness: the entry at the old index value held pk, the add step failed,
\* and pk is gone from the old entry.
C8_Witness ==
    /\ IndexChanged
    /\ IsOk(typed_load(pre, OldKey))
    /\ Count(ret.key, typed_load(pre, OldKey)[2]) = 1
    /\ IsErr(typed_may_load(pre, NewKey))
    /\ IsErr(ret.res)
    /\ Count(ret.key, RefsAt(store, OldKey)) = 0

(***************************************************************************)
(* SpecCtor: a caller draws a namespace chain, whose segments may be       *)
(* longer than length_prefix accepts, and a way to build a view of it;     *)
(* the store may hold values already; the caller builds the view, and if   *)
(* the constructor did not panic, sets and gets through it.                *)
(***************************************************************************)
\* a segment of n bytes
Seg(n) == [i \in 1..n |-> 1]
CtorSegments == {Seg(0), Seg(1), Seg(MaxPrefixLen), Seg(MaxPrefixLen + 1)}
CtorChains == SeqsUpTo(CtorSegments, MaxChainLen) \ {<<>>}
CtorFlats == {<<0>>, <<1, 1>>, <<0, 0>>, <<1, 1, 2>>}
CtorKeys == {<<>>, <<2>>}

CtorInit ==
    /\ store = EmptyStore
    /\ pre = EmptyStore
    /\ lastW = <<>>
    /\ owner = <<>>
    /\ ret = RetIdle
    /\ nops = 0
    /\ \E c \in CtorChains, access \in {"rw", "ro"} :
         \E form \in FormsOf(c) :
            enc = [stage |-> "input", chain |-> c, form |-> form, access |-> access,
                   view |-> <<>>]

\* store.set(flat key, value) before the view borrows the store
CtorStoreSet ==
    /\ enc.stage = "input"
    /\ nops < MaxOps
    /\ \E flat \in CtorFlats, value \in ViewVals :
         /\ store' = storage_set(store, flat, value)
         /\ ret' = Ret("raw_set", "", <<>>, flat, value, Unit, 0, 1)
    /\ pre' = store
    /\ nops' = nops + 1
    /\ UNCHANGED <<lastW, owner, enc>>

\* PrefixedStorage::new / multilevel, ReadonlyPrefixedStorage::new / multilevel,
\* alone or one over the other: the prefixes are computed, the store is only
\* borrowed; a panic in length_prefix or multi_length_prefix ends the caller
Construct ==
    /\ enc.stage = "input"
    /\ LET view == IF enc.access = "rw" THEN rw_view(enc.form, enc.chain)
                   ELSE ro_view(enc.form, enc.chain)
           panicked == Panic \in {view[i] : i \in 1..Len(view)}
       IN  /\ enc' = [enc EXCEPT !.stage = IF panicked THEN "panicked" ELSE "view",
                                 !.view = IF panicked THEN <<>> ELSE view]
           /\ ret' = Ret("construct", enc.form, enc.chain, <<>>, enc.access,
                         IF panicked THEN Panic ELSE Unit, 0, 0)
    /\ pre' = store
    /\ UNCHANGED <<store, lastW, owner, nops>>

\* view.set(key, value) through the view that was built
CtorSet ==
    /\ enc.stage = "view"
    /\ enc.access = "rw"
    /\ nops < MaxOps
    /\ \E key \in CtorKeys, value \in ViewVals :
         /\ store' = PrefixedStorage_set(store, enc.view, key, value)
         /\ ret' = Ret("set", enc.form, enc.chain, key, value, Unit, 0, 1)
    /\ pre' = store
    /\ nops' = nops + 1
    /\ UNCHANGED <<lastW, owner, enc>>

\* view.get(key) through the view that was built
CtorGet ==
    /\ enc.stage = "view"
    /\ nops < MaxOps
    /\ \E key \in CtorKeys :
         ret' = Ret("get", enc.form, enc.chain, key, enc.access,
                    IF enc.access = "rw" THEN PrefixedStorage_get(store, enc.view, key)
                    ELSE ReadonlyPrefixedStorage_get(store, enc.view, key), 1, 0)
    /\ pre' = store
    /\ nops' = nops + 1
    /\ UNCHANGED <<store, lastW, owner, enc>>

CtorNext == CtorStoreSet \/ Construct \/ CtorSet \/ CtorGet

SpecCtor == CtorInit /\ [][CtorNext]_vars

RECURSIVE ExpectedPrefix(_)
\* len(s1) ++ s1 ++ ... ++ len(sn) ++ sn, the lengths not reduced
ExpectedPrefix(chain) ==
    IF chain = <<>> THEN <<>>
    ELSE (<<Len(Head(chain))>> \o Head(chain)) \o ExpectedPrefix(Tail(chain))

(***************************************************************************)
(* C13                                                                     *)
(***************************************************************************)
\* C13: building a prefix, single-level or chain, in which a segment is
\* longer than 255 bytes fails with a panic before any store access and
\* yields no prefix with a truncated or wrapped length byte; every chain of
\* segments of 0..255 bytes is accepted and gets its exact lengths.
C13_OverlongFailsFast ==
    enc.stage \in {"view", "panicked"} =>
        LET long == \E i \in 1..Len(enc.chain) : Len(enc.chain[i]) > MaxPrefixLen
        IN  /\ (enc.stage = "panicked") <=> long
            /\ enc.stage = "panicked" =>
                  /\ ret.op = "construct"
                  /\ ret.res = Panic
                  /\ ret.nr = 0 /\ ret.nw = 0
                  /\ store = pre
                  /\ enc.view = <<>>
            /\ enc.stage = "view" =>
                  /\ Flatten(enc.view) = ExpectedPrefix(enc.chain)
                  /\ \A i \in 1..Len(enc.view) : enc.view[i][1] \in 0..MaxPrefixLen

\* C13 witness: over a store that held a value, a chain whose first segment
\* has 255 bytes and whose second has 256 made the constructor panic.
C13_Witness ==
    /\ enc.stage = "panicked"
    /\ Len(enc.chain) = 2
    /\ Len(enc.chain[1]) = MaxPrefixLen
    /\ Len(enc.chain[2]) = MaxPrefixLen + 1
    /\ store # EmptyStore

(***************************************************************************)
(* C14                                                                     *)
(***************************************************************************)
\* C14: for a chain [s1..sn] and a key k, the flat key a view of the chain
\* hands to the store is exactly len(s1) ++ s1 ++ ... ++ len(sn) ++ sn ++ k:
\* one length byte per segment in chain order, the key appended raw with no
\* length byte, a zero-length segment giving the single byte 0.  A set puts
\* the value at that flat key, a get returns what the store holds there.
C14_EncodingFormat ==
    /\ (ret.op = "set" /\ ret.form \in {"new", "nested", "multilevel"}) =>
          /\ store = storage_set(pre, ExpectedPrefix(ret.chain) \o ret.key, ret.arg)
          /\ (\A i \in 1..Len(ret.chain) : ret.chain[i] = <<>>) =>
                storage_get(store, [i \in 1..Len(ret.chain) |-> 0] \o ret.key)
                   = Some(ret.arg)
    /\ ret.op = "get" =>
          ret.res = storage_get(store, ExpectedPrefix(ret.chain) \o ret.key)

\* C14 witness: a set of key [2] through new([1]) with new([1, 1]) over it
\* put the value at the flat key [1, 1, 2, 1, 1, 2].
C14_Witness ==
    /\ ret.op = "set"
    /\ ret.form = "nested"
    /\ ret.chain = << <<1>>, <<1, 1>> >>
    /\ ret.key = <<2>>
    /\ storage_get(store, <<1, 1, 2, 1, 1, 2>>) = Some(ret.arg)
    /\ storage_get(pre, <<1, 1, 2, 1, 1, 2>>) = None

(***************************************************************************)
(* C15                                                                     *)
(***************************************************************************)
\* the last operation was a successful write_index of a new record, through
\* the index built with index(ns, age)
InsertedUnder(ns) ==
    /\ IsWriteIndex
    /\ OldVal = None
    /\ IsOk(ret.res)
    /\ ret.chain = index(ns, "age")

\* the flat keys whose value the last operation created or changed
Touched ==
    {k \in (DOMAIN store) \cup (DOMAIN pre) : storage_get(store, k) # storage_get(pre, k)}

\* C15 (as stated): for the index with namespace "foo" on the big-endian
\* 4-byte age, the flat key of a record of age 127 is exactly
\* [0, 3, 'f', 'o', 'o', 0, 0, 0, 127]; in general the index flat key is the
\* key encoder's encoding (one length byte, the namespace) of the index
\* namespace followed by the raw index value.
C15_IndexKeyIsEncoderKey ==
    \A ns \in IndexNamespaces :
        InsertedUnder(ns) =>
            /\ (ns = <<102, 111, 111>> /\ NewVal.age = 127) =>
                  Touched = {<<0, 3, 102, 111, 111, 0, 0, 0, 127>>}
            /\ Touched = {encode_chain(<<ns>>, <<0, 0, 0, NewVal.age>>)}

\* C15 (amended): the same scenario; in general the index flat key is the
\* length of the index namespace as two bytes, big-endian, the namespace,
\* and the raw index value.
C15_IndexKeyTwoByteLength ==
    \A ns \in IndexNamespaces :
        InsertedUnder(ns) =>
            /\ (ns = <<102, 111, 111>> /\ NewVal.age = 127) =>
                  Touched = {<<0, 3, 102, 111, 111, 0, 0, 0, 127>>}
            /\ Touched = {(<<Len(ns) \div 256, Len(ns) % 256>> \o ns)
                             \o <<0, 0, 0, NewVal.age>>}

\* C15 witness: the record of age 127 was inserted in the index "foo" and
\* its entry was created at [0, 3, 'f', 'o', 'o', 0, 0, 0, 127].
C15_Witness ==
    /\ InsertedUnder(<<102, 111, 111>>)
    /\ NewVal.age = 127
    /\ storage_get(pre, <<0, 3, 102, 111, 111, 0, 0, 0, 127>>) = None
    /\ storage_get(store, <<0, 3, 102, 111, 111, 0, 0, 0, 127>>) # None

(***************************************************************************)
(* C16                                                                     *)
(***************************************************************************)
\* the last operation was a write_index whose index value did not change
IndexUnchanged ==
    /\ IsWriteIndex
    /\ OldVal # None
    /\ apply_index(ret.chain.action, OldVal[1]) = apply_index(ret.chain.action, NewVal)

\* C16 (as stated): counted in reads and writes of index entries, a pure
\* insert performs exactly one read and one write, an update whose index
\* value changes exactly two reads and two writes, an update whose index
\* value is unchanged none.
C16_CostModel ==
    IsWriteIndex =>
        /\ OldVal = None => (ret.nr = 1 /\ ret.nw = 1)
        /\ IndexChanged => (ret.nr = 2 /\ ret.nw = 2)
        /\ IndexUnchanged => (ret.nr = 0 /\ ret.nw = 0)

\* C16 (amended): the same counts for a write_index that returns success; a
\* write_index that returns an error has read at most two entries and
\* written one entry less than it read.
C16_CostModelOnSuccess ==
    IsWriteIndex =>
        /\ IsOk(ret.res) =>
              /\ OldVal = None => (ret.nr = 1 /\ ret.nw = 1)
              /\ IndexChanged => (ret.nr = 2 /\ ret.nw = 2)
        /\ IndexUnchanged => (IsOk(ret.res) /\ ret.nr = 0 /\ ret.nw = 0)
        /\ IsErr(ret.res) => (ret.nr \in 1..2 /\ ret.nw = ret.nr - 1)

\* C16 witness: an update that changed the index value succeeded on an old
\* entry that did not hold the primary key, with two reads and two writes.
C16_Witness ==
    /\ IndexChanged
    /\ IsOk(ret.res)
    /\ Count(ret.key, RefsAt(pre, OldKey)) = 0
    /\ ret.nr = 2
    /\ ret.nw = 2

(***************************************************************************)
(* C17                                                                     *)
(***************************************************************************)
\* every write so far went through a view of a single namespace
OnlySingleViews == \A id \in DOMAIN lastW : id[1] = "view" /\ Len(id[2]) = 1

\* the namespaces and keys of the views, and b"foo", b"fo", b"bar", b"obar"
C17Namespaces == NsSegments \cup {<<102, 111, 111>>, <<102, 111>>}
C17Keys == Keys \cup {<<98, 97, 114>>, <<111, 98, 97, 114>>}

\* C17: for single namespaces n1, n2 and keys k1, k2 the flat keys of
\* (n1, k1) and (n2, k2) are equal only if n1 = n2 and k1 = k2; ("foo", "bar")
\* and ("fo", "obar") get different flat keys; so among views of a single
\* namespace a get at (n, k) returns the value last set at (n, k), and
\* nothing when no set was made there, whatever was set elsewhere.
C17_SingleLevelCollisionFree ==
    /\ \A n1 \in C17Namespaces, n2 \in C17Namespaces, k1 \in C17Keys, k2 \in C17Keys :
          prefixed_key(length_prefix(n1), k1) = prefixed_key(length_prefix(n2), k2)
             => (n1 = n2 /\ k1 = k2)
    /\ prefixed_key(length_prefix(<<102, 111, 111>>), <<98, 97, 114>>)
          # prefixed_key(length_prefix(<<102, 111>>), <<111, 98, 97, 114>>)
    /\ OnlySingleViews =>
          /\ \A id1 \in DOMAIN lastW, id2 \in DOMAIN lastW :
                lastW[id1].flat = lastW[id2].flat => id1 = id2
          /\ (ret.op = "get" /\ Len(ret.chain) = 1) =>
                ret.res = IF <<"view", ret.chain, ret.key>> \in DOMAIN lastW
                          THEN Some(lastW[<<"view", ret.chain, ret.key>>].val)
                          ELSE None

\* C17 witness: after a set at (<<1>>, <<1, 2>>) and no set elsewhere, a get
\* of <<2>> under <<1, 1>>, whose raw concatenation is the same, found nothing.
C17_Witness ==
    /\ OnlySingleViews
    /\ DOMAIN lastW = {<<"view", << <<1>> >>, <<1, 2>>>>}
    /\ ret.op = "get"
    /\ ret.chain = << <<1, 1>> >>
    /\ ret.key = <<2>>
    /\ ret.res = None

(***************************************************************************)
(* C18                                                                     *)
(***************************************************************************)
\* C18: index entries are emptied, never deleted.  A flat key that was in
\* the store before an operation is in the store after it, and a key that
\* held an index entry holds one after a write_index; when write_index moves
\* away the only primary key of an entry, the entry stays stored with an
\* empty collection, and a lookup returns a present, empty entry.
C18_EmptiedNeverDeleted ==
    /\ DOMAIN pre \subseteq DOMAIN store
    /\ IsWriteIndex =>
          \A k \in DOMAIN pre : IsOk(typed_load(pre, k)) => IsOk(typed_load(store, k))
    /\ (IndexChanged /\ IsOk(typed_load(pre, OldKey))
            /\ \A i \in 1..Len(RefsAt(pre, OldKey)) : RefsAt(pre, OldKey)[i] = ret.key) =>
          /\ storage_get(store, OldKey) # None
          /\ load_keys(store, OldKey) = Ok(Some(<<>>))
    /\ ret.op = "load_keys" => ret.res = typed_may_load(store, ret.key)

\* C18 witness: after the only primary key of an entry was moved to another
\* index value, a lookup of the old index value returned a present, empty
\* entry.
C18_Witness ==
    /\ ret.op = "load_keys"
    /\ ret.res = Ok(Some(<<>>))
    /\ \E k \in DOMAIN store : k # ret.key /\ Len(RefsAt(store, k)) = 1

(***************************************************************************)
(* C19                                                                     *)
(***************************************************************************)
\* C19: constructing a prefixed view performs no store operation; a
\* set(k, v) through a view changes exactly one flat key of the store,
\* prefix ++ k, to the value v as given, and leaves every other flat key as
\* it was; a get through a view is one get of the store at prefix ++ k and
\* changes nothing.
C19_ViewFrame ==
    LET flat == ExpectedPrefix(ret.chain) \o ret.key
    IN  /\ ret.op = "construct" => (store = pre /\ ret.nr = 0 /\ ret.nw = 0)
        /\ ret.op = "set" =>
              /\ storage_get(store, flat) = Some(ret.arg)
              /\ \A k \in (DOMAIN store) \cup (DOMAIN pre) :
                    k # flat => storage_get(store, k) = storage_get(pre, k)
              /\ ret.nr = 0 /\ ret.nw = 1
        /\ ret.op = "get" =>
              /\ store = pre
              /\ ret.res = storage_get(pre, flat)
              /\ ret.nr = 1 /\ ret.nw = 0

\* C19 witness: a set through a view built over a store that held another
\* flat key created its own flat key and left the other one as it was.
C19_Witness ==
    /\ ret.op = "set"
    /\ ExpectedPrefix(ret.chain) \o ret.key \notin DOMAIN pre
    /\ ExpectedPrefix(ret.chain) \o ret.key \in DOMAIN store
    /\ \E k \in DOMAIN pre : store[k] = pre[k]

(***************************************************************************)
(* SpecRecords: a caller that keeps records under primary keys and, on     *)
(* every write of a record, hands write_index the record it last wrote     *)
(* under that primary key (None on the first write).  lastW remembers, for *)
(* each index and primary key, the record last written.                    *)
(***************************************************************************)
\* write_index(&mut store, &idx, pk, the record last written for pk, &new_val)
RecordWrite ==
    /\ nops < MaxIndexOps
    /\ \E idx \in Indexes, pk \in PrimaryKeys, new_val \in Persons :
         LET id == <<"index", idx.prefix, pk>>
             old_val == IF id \in DOMAIN lastW THEN Some(lastW[id].val) ELSE None
             r == write_index(store, idx, pk, old_val, new_val)
         IN  /\ store' = r.s
             /\ lastW' = IF IsOk(r.res)
                         THEN Put(lastW, id, [val |-> new_val, flat |-> calc_key(idx, new_val)])
                         ELSE lastW
             /\ ret' = Ret("write_index", "", idx, pk, <<old_val, new_val>>,
                           r.res, r.nr, r.nw)
    /\ pre' = store
    /\ nops' = nops + 1
    /\ UNCHANGED <<owner, enc>>

RecordsNext == RecordWrite \/ LoadKeys

SpecRecords == Init /\ [][RecordsNext]_vars

\* key is a flat key of the index with this prefix
InIndex(prefix, key) ==
    Len(key) >= Len(prefix) /\ SubSeq(key, 1, Len(prefix)) = prefix

(***************************************************************************)
(* C20                                                                     *)
(***************************************************************************)
\* C20: from an empty store, after any sequence of write_index calls that
\* each pass as old_value the record last written for the primary key (None
\* on its first write), every call has succeeded, and every primary key
\* whose current record is r is exactly once in the index entry at
\* index_fn(r) and in no other entry of that index.
C20_IndexConsistent ==
    /\ IsWriteIndex => IsOk(ret.res)
    /\ \A id \in DOMAIN lastW :
          LET prefix == id[2]
              pk == id[3]
              here == prefix \o apply_index("age", lastW[id].val)
          IN  /\ Count(pk, RefsAt(store, here)) = 1
              /\ \A k \in DOMAIN store :
                    (InIndex(prefix, k) /\ k # here) => Count(pk, RefsAt(store, k)) = 0

\* C20 witness: two primary keys share an entry after one of them was moved
\* there from another index value, whose entry is left empty.
C20_Witness ==
    /\ IndexChanged
    /\ IsOk(ret.res)
    /\ Len(RefsAt(store, NewKey)) = 2
    /\ Count(ret.key, RefsAt(store, NewKey)) = 1
    /\ storage_get(store, OldKey) # None
    /\ RefsAt(store, OldKey) = <<>>

(***************************************************************************)
(* C21                                                                     *)
(***************************************************************************)
\* the flat key of the index of the last write_index for a record: the
\* index's prefix and the record's age as four bytes, big-endian
EntryKeyOf(item) == ret.chain.prefix \o <<0, 0, 0, item.age>>

\* C21: a write_index call, whether it succeeds or fails, changes at most
\* the two flat keys prefix ++ index_fn(old_value) and prefix ++
\* index_fn(new_value) of its own index; every other key of the store, the
\* entries of the same index at other index values and the entries of an
\* index with another namespace included, is as it was; and when the
\* remove-old step fails the whole store is as it was.
C21_WriteIndexFrame ==
    IsWriteIndex =>
        /\ Touched \subseteq
              (IF OldVal = None THEN {EntryKeyOf(NewVal)}
               ELSE {EntryKeyOf(OldVal[1]), EntryKeyOf(NewVal)})
        /\ \A k \in Touched : InIndex(ret.chain.prefix, k)
        /\ \A k \in DOMAIN pre :
              (~InIndex(ret.chain.prefix, k) \/ k \notin {EntryKeyOf(p) : p \in {NewVal}
                                                           \cup {OldVal[i] : i \in 1..Len(OldVal)}})
                 => storage_get(store, k) = storage_get(pre, k)
        /\ (IndexChanged /\ IsErr(typed_load(pre, EntryKeyOf(OldVal[1])))) =>
              /\ ret.res = typed_load(pre, EntryKeyOf(OldVal[1]))
              /\ store = pre

\* C21 witness: an update that changed the index value rewrote the entries
\* at the old and at the new index value, while the store held an entry of
\* the index with the other namespace, which stayed as it was.
C21_Witness ==
    /\ IndexChanged
    /\ IsOk(ret.res)
    /\ Touched = {EntryKeyOf(OldVal[1]), EntryKeyOf(NewVal)}
    /\ \E k \in DOMAIN pre :
          /\ ~InIndex(ret.chain.prefix, k)
          /\ IsOk(typed_load(pre, k))
          /\ store[k] = pre[k]

====
